---------------------------- MODULE Spec2Model ----------------------------
(***************************************************************************)
(* Julian and Gregorian calendar dates (src/calendar.py) and the loops of  *)
(* their unit tests (src/test_calendar.py).                                *)
(*                                                                         *)
(* The library is a set of pure functions over immutable date values.      *)
(* Each function is an operator below, computed as the Python code         *)
(* computes it; a function that can raise returns a record whose exc field *)
(* names the exception.  The state machine is a caller that applies the    *)
(* public operations to the date object the last call returned.            *)
(***************************************************************************)
EXTENDS Integers, Sequences, FiniteSets

VARIABLES
    op,                 \* the last operation the caller applied
    cls,                \* the calendar class that operation was invoked on
    self,               \* the receiver of the last method call (NoDate: none)
    args,               \* the integer arguments of the last call
    exc,                \* the exception the last call raised ("none": returned)
    obj,                \* the date object the last call returned (NoDate: none)
    num,                \* the integer the last call returned (0: none)
    flags,              \* the booleans the last call returned
    rhs,                \* the right-hand operand of the last comparison
    reduced,            \* from_julian_day_number's year and days after its period loop
    testing,            \* TRUE while the unit tests' day loop is running
    julian_day_number   \* the day counter of the unit tests' day loop

vars == <<op, cls, self, args, exc, obj, num, flags, rhs, reduced, testing, julian_day_number>>

(***************************************************************************)
(* Bounds of the model.                                                    *)
(***************************************************************************)
\* Years this far around each anchor year are given to the operations.
YearRadius == 1
\* Julian day numbers this far around each anchor number are converted.
JdnRadius == 40
\* The unit tests' day loop is followed for this many days from the epoch:
\* more than one 4-year cycle of 1461 days.
MaxWalk == 1500
\* Month arguments are drawn from 0..MaxMonthArg, day arguments from
\* 0..MaxDayArg: both ranges hold invalid values on either side.
MaxMonthArg == 13
MaxDayArg == 32

\* The two calendar classes, by name.
JulianCalendarDate == "JulianCalendarDate"
GregorianCalendarDate == "GregorianCalendarDate"
Classes == {JulianCalendarDate, GregorianCalendarDate}

\* A date value is its (year, month, day) fields; year 0 never occurs in a
\* constructed date, so the all-zero record stands for "no object".
Date(y, m, d) == [year |-> y, month |-> m, day |-> d]
NoDate == Date(0, 0, 0)
NoFlags == [lt |-> FALSE, le |-> FALSE, eq |-> FALSE,
            ne |-> FALSE, gt |-> FALSE, ge |-> FALSE, leap |-> FALSE]
NoRhs == [cls |-> "none", date |-> NoDate]
NoReduction == [year |-> 0, days |-> -1]

\* The outcome of a call: it returns a value or raises ValueError.
Return(v) == [exc |-> "none", val |-> v]
Raise == [exc |-> "ValueError"]

(***************************************************************************)
(* Module-level functions.                                                 *)
(***************************************************************************)
\* num % divider == 0; Python's % and TLA+'s % both take the sign of the
\* (positive) divider.
is_divisible_by(n, divider) == n % divider = 0

\* A normalization that leaves BCE years as they are.
normalize_year_without_shift(year) ==
    IF year = 0 THEN Raise
    ELSE Return(year)

normalize_year(year) ==
    IF year = 0 THEN Raise
    ELSE Return(IF year > 0 THEN year ELSE year + 1)

(***************************************************************************)
(* Per-calendar constants and rules.                                       *)
(***************************************************************************)
_days_before_month == <<0, 31, 61, 92, 122, 153, 184, 214, 245, 275, 306, 337>>

\* Rows (period_days, period_years, max_periods); max_periods is the set of
\* limits on the row: {} is Python's None, {3} is 3.
_leapyear_periods(c) ==
    IF c = JulianCalendarDate
    THEN << <<1461, 4, {}>>, <<365, 1, {3}>> >>
    ELSE << <<146097, 400, {}>>, <<36524, 100, {3}>>, <<1461, 4, {}>>, <<365, 1, {3}>> >>

\* Python's ^ on two bools.
Xor(a, b) == a # b

_leapyear_rule(c, normalized_year) ==
    IF c = JulianCalendarDate
    THEN is_divisible_by(normalized_year, 4)
    ELSE Xor(Xor(is_divisible_by(normalized_year, 4),
                 is_divisible_by(normalized_year, 100)),
             is_divisible_by(normalized_year, 400))

\* Division that truncates toward zero, as C's / does.
truncated_div(a, b) == IF a >= 0 THEN a \div b ELSE 0 - ((0 - a) \div b)

\* The day number of 1 March computed with truncating division.
year_julian_day_number_truncating(c, normalized_year) ==
    IF c = JulianCalendarDate
    THEN 1721118 + (normalized_year * 365) + truncated_div(normalized_year, 4)
    ELSE 1721120 + (normalized_year * 365) + truncated_div(normalized_year, 4)
             - truncated_div(normalized_year, 100) + truncated_div(normalized_year, 400)

\* The day number of 1 March with the Julian epoch constant in both calendars.
year_julian_day_number_one_epoch(c, normalized_year) ==
    IF c = JulianCalendarDate
    THEN 1721118 + (normalized_year * 365) + (normalized_year \div 4)
    ELSE 1721118 + (normalized_year * 365) + (normalized_year \div 4)
             - (normalized_year \div 100) + (normalized_year \div 400)

\* Python's // is floor division, as is \div.
_year_julian_day_number(c, normalized_year) ==
    IF c = JulianCalendarDate
    THEN 1721118 + (normalized_year * 365) + (normalized_year \div 4)
    ELSE 1721120 + (normalized_year * 365) + (normalized_year \div 4)
             - (normalized_year \div 100) + (normalized_year \div 400)

(***************************************************************************)
(* AbstractCalendarDate.                                                   *)
(***************************************************************************)
is_leapyear(c, year) ==
    LET normalized_year == normalize_year(year)
    IN  IF normalized_year.exc # "none" THEN Raise
        ELSE Return(_leapyear_rule(c, normalized_year.val))

length_of_month(c, year, month) ==
    LET valid_month == (year # 0) /\ (1 <= month /\ month <= 12)
    IN  IF ~valid_month THEN Raise
        ELSE IF month = 2
             THEN LET leap == is_leapyear(c, year)
                  IN  IF leap.exc # "none" THEN Raise
                      ELSE Return(IF leap.val THEN 29 ELSE 28)
             ELSE Return(IF month \in {4, 6, 9, 11} THEN 30 ELSE 31)

\* A constructor whose lower bound on the day is off by one.
init_accepting_day_zero(c, year, month, day) ==
    IF (year # 0) /\ (1 <= month /\ month <= 12)
    THEN LET len == length_of_month(c, year, month)
         IN  IF len.exc # "none" THEN Raise
             ELSE IF 0 <= day /\ day <= len.val
                  THEN Return(Date(year, month, day))
                  ELSE Raise
    ELSE Raise

\* __init__: the conjunction is evaluated left to right and stops at the
\* first false conjunct, so length_of_month is called only with a valid
\* year and month.
__init__(c, year, month, day) ==
    IF (year # 0) /\ (1 <= month /\ month <= 12)
    THEN LET len == length_of_month(c, year, month)
         IN  IF len.exc # "none" THEN Raise
             ELSE IF 1 <= day /\ day <= len.val
                  THEN Return(Date(year, month, day))
                  ELSE Raise
    ELSE Raise

\* A successor that does not skip year 0 after 31 December of year -1.
next_without_year_skip(c, date) ==
    LET len == length_of_month(c, date.year, date.month)
    IN  IF len.exc # "none" THEN Raise
        ELSE LET last  == date.day = len.val
                 wrap  == last /\ date.month = 12
                 year  == IF wrap THEN date.year + 1 ELSE date.year
                 month == IF last THEN (IF wrap THEN 1 ELSE date.month + 1) ELSE date.month
                 day   == IF last THEN 1 ELSE date.day + 1
             IN  __init__(c, year, month, day)

\* __next__: the successor date, built by the class's constructor.
__next__(c, date) ==
    LET len == length_of_month(c, date.year, date.month)
    IN  IF len.exc # "none" THEN Raise
        ELSE LET last  == date.day = len.val
                 wrap  == last /\ date.month = 12
                 day0  == IF last THEN 0 ELSE date.day
                 mon0  == IF wrap THEN 0 ELSE date.month
                 year0 == IF wrap /\ date.year = -1 THEN 0 ELSE date.year
                 year  == IF wrap THEN year0 + 1 ELSE year0
                 month == IF last THEN mon0 + 1 ELSE mon0
                 day   == day0 + 1
             IN  __init__(c, year, month, day)

\* A conversion that renumbers the months from March on but leaves January
\* and February in their own year.
to_julian_day_number_without_year_shift(c, date) ==
    LET normalized_year == normalize_year(date.year)
    IN  IF normalized_year.exc # "none" THEN Raise
        ELSE LET m3    == date.month - 3
                 month == IF m3 < 0 THEN m3 + 12 ELSE m3
                 day   == date.day - 1
             IN  Return(_year_julian_day_number(c, normalized_year.val)
                        + _days_before_month[month + 1] + day)

to_julian_day_number(c, date) ==
    LET normalized_year == normalize_year(date.year)
    IN  IF normalized_year.exc # "none" THEN Raise
        ELSE LET m3    == date.month - 3
                 month == IF m3 < 0 THEN m3 + 12 ELSE m3
                 year  == IF m3 < 0 THEN normalized_year.val - 1
                                    ELSE normalized_year.val
                 day   == date.day - 1
             IN  Return(_year_julian_day_number(c, year)
                        + _days_before_month[month + 1] + day)

\* A period loop that ignores max_periods.
RECURSIVE reduce_periods_unclamped(_, _, _, _)
reduce_periods_unclamped(table, i, year, days) ==
    IF i > Len(table) THEN [year |-> year, days |-> days]
    ELSE LET period_days  == table[i][1]
             period_years == table[i][2]
             periods      == days \div period_days
         IN  reduce_periods_unclamped(table, i + 1, year + periods * period_years,
                                      days - periods * period_days)

\* The period loop of from_julian_day_number, from row i of the table on.
RECURSIVE reduce_periods(_, _, _, _)
reduce_periods(table, i, year, days) ==
    IF i > Len(table) THEN [year |-> year, days |-> days]
    ELSE LET period_days  == table[i][1]
             period_years == table[i][2]
             max_periods  == table[i][3]
             quotient     == days \div period_days
             periods      == IF \E limit \in max_periods : quotient > limit
                             THEN CHOOSE limit \in max_periods : TRUE
                             ELSE quotient
         IN  reduce_periods(table, i + 1, year + periods * period_years,
                            days - periods * period_days)

\* from_julian_day_number up to the end of its period loop.
period_reduction(c, jdn) ==
    reduce_periods(_leapyear_periods(c), 1, 0, jdn - _year_julian_day_number(c, 0))

\* The month loop of from_julian_day_number: the first month of range(12),
\* from `month` on, at which the loop breaks.
RECURSIVE find_month(_, _)
find_month(days, month) ==
    IF month = 11 \/ days < _days_before_month[month + 2] THEN month
    ELSE find_month(days, month + 1)

\* A conversion that moves January and February back to the front of the
\* year without moving them into the next year.
from_julian_day_number_without_year_carry(c, jdn) ==
    LET r      == period_reduction(c, jdn)
        month0 == find_month(r.days, 0)
        day    == (r.days - _days_before_month[month0 + 1]) + 1
        m3     == month0 + 3
        month  == IF m3 > 12 THEN m3 - 12 ELSE m3
        year   == IF r.year <= 0 THEN r.year - 1 ELSE r.year
    IN  __init__(c, year, month, day)

\* A conversion that does not skip year 0 when it leaves the normalized years.
from_julian_day_number_without_unnormalize(c, jdn) ==
    LET r      == period_reduction(c, jdn)
        month0 == find_month(r.days, 0)
        day    == (r.days - _days_before_month[month0 + 1]) + 1
        m3     == month0 + 3
        month  == IF m3 > 12 THEN m3 - 12 ELSE m3
        year   == IF m3 > 12 THEN r.year + 1 ELSE r.year
    IN  __init__(c, year, month, day)

from_julian_day_number(c, jdn) ==
    LET r      == period_reduction(c, jdn)
        month0 == find_month(r.days, 0)
        day    == (r.days - _days_before_month[month0 + 1]) + 1
        m3     == month0 + 3
        month  == IF m3 > 12 THEN m3 - 12 ELSE m3
        year1  == IF m3 > 12 THEN r.year + 1 ELSE r.year
        year   == IF year1 <= 0 THEN year1 - 1 ELSE year1
    IN  __init__(c, year, month, day)

\* The six comparison operators; a and b are [cls, date] objects of any class.
\* A comparison of two constructed dates raises nothing.
jdn_of(a) == to_julian_day_number(a.cls, a.date).val
__lt__(a, b) == jdn_of(a) < jdn_of(b)
__le__(a, b) == jdn_of(a) <= jdn_of(b)
\* Equality of the fields and the class instead of the day numbers.
eq_by_fields(a, b) == a.cls = b.cls /\ a.date = b.date
__eq__(a, b) == jdn_of(a) = jdn_of(b)
__ne__(a, b) == jdn_of(a) # jdn_of(b)
__gt__(a, b) == jdn_of(a) > jdn_of(b)
__ge__(a, b) == jdn_of(a) >= jdn_of(b)

(***************************************************************************)
(* Inputs of the model.                                                    *)
(***************************************************************************)
\* The epoch (4713 BCE / 4714 BCE), the BCE/CE boundary, the comparison
\* test's year, a century that only the Julian calendar makes a leap year,
\* and a year that ends a 400-year cycle.
YearAnchors == {-4713, -1, 1, 1752, 1900, 2000}
ArgYears == UNION {(a - YearRadius)..(a + YearRadius) : a \in YearAnchors}

\* Day 0 (with negative numbers before it), 1 March of normalized year 0
\* (where the period loop's offset changes sign), the turn from 1 BCE to
\* 1 CE, and the comparison test's day.
JdnAnchors == {0, _year_julian_day_number(JulianCalendarDate, 0), 1721425, 2361221}
JdnInputs == UNION {(a - JdnRadius)..(a + JdnRadius) : a \in JdnAnchors}

\* Years given to is_leapyear: the argument years, a run of years around 0
\* that holds multiples of 4, 100 and 400 of either sign, and the years the
\* documentation names.
LeapSpan == 410
LeapYears == ArgYears \cup ((0 - LeapSpan)..LeapSpan) \cup {1900, 1996, 1997, 2000}

\* The epoch date of each calendar, as the unit tests construct it.
EpochArgs(c) == IF c = JulianCalendarDate THEN <<-4713, 1, 1>> ELSE <<-4714, 11, 24>>

Object(c, y, m, d) == [cls |-> c, date |-> Date(y, m, d)]

\* Right-hand operands of the comparisons: the four dates of
\* test_calendar_datecomparisons, the two epoch dates, and dates around the
\* BCE/CE boundary and around 1 March.
CmpOperands ==
    { Object(JulianCalendarDate, 1752, 9, 2),
      Object(GregorianCalendarDate, 1752, 9, 13),
      Object(JulianCalendarDate, 1752, 9, 13),
      Object(GregorianCalendarDate, 1752, 9, 24),
      Object(JulianCalendarDate, -4713, 1, 1),
      Object(GregorianCalendarDate, -4714, 11, 24),
      Object(JulianCalendarDate, 1, 1, 1),
      Object(GregorianCalendarDate, -1, 12, 31),
      Object(JulianCalendarDate, 1900, 2, 29),
      Object(GregorianCalendarDate, 2000, 3, 1) }

(***************************************************************************)
(* The state machine.  The functions are pure, so what a call returns      *)
(* depends on its receiver and arguments alone: a behaviour is one call    *)
(* that makes a value out of integers (a constructor or a class method,    *)
(* enabled while the caller holds the result of no call), followed by      *)
(* method calls on the date the call before returned.                      *)
(***************************************************************************)
Init ==
    /\ op = "none"
    /\ cls = "none"
    /\ self = NoDate
    /\ args = <<>>
    /\ exc = "none"
    /\ obj = NoDate
    /\ num = 0
    /\ flags = NoFlags
    /\ rhs = NoRhs
    /\ reduced = NoReduction
    /\ testing = FALSE
    /\ julian_day_number = 0

\* cls(year, month, day)
Construct(c, y, m, d) ==
    LET r == __init__(c, y, m, d)
    IN  /\ op = "none"
        /\ op' = "new"
        /\ cls' = c
        /\ self' = NoDate
        /\ args' = <<y, m, d>>
        /\ exc' = r.exc
        /\ obj' = IF r.exc = "none" THEN r.val ELSE NoDate
        /\ num' = 0
        /\ flags' = NoFlags
        /\ rhs' = NoRhs
        /\ reduced' = NoReduction
        /\ testing' = FALSE
        /\ julian_day_number' = 0

\* next(obj), for a held date of a modelled year
NextDay ==
    /\ obj # NoDate
    /\ obj.year \in ArgYears
    /\ LET r == __next__(cls, obj)
       IN  /\ op' = "next"
           /\ self' = obj
           /\ args' = <<>>
           /\ exc' = r.exc
           /\ obj' = IF r.exc = "none" THEN r.val ELSE NoDate
           /\ num' = 0
           /\ flags' = NoFlags
           /\ rhs' = NoRhs
           /\ reduced' = NoReduction
           /\ testing' = FALSE
           /\ julian_day_number' = 0
           /\ UNCHANGED cls

\* obj.to_julian_day_number()
ToJulianDayNumber ==
    /\ obj # NoDate
    /\ LET r == to_julian_day_number(cls, obj)
       IN  /\ op' = "to_jdn"
           /\ self' = obj
           /\ args' = <<>>
           /\ exc' = r.exc
           /\ obj' = NoDate
           /\ num' = IF r.exc = "none" THEN r.val ELSE 0
           /\ flags' = NoFlags
           /\ rhs' = NoRhs
           /\ reduced' = NoReduction
           /\ testing' = FALSE
           /\ julian_day_number' = 0
           /\ UNCHANGED cls

\* c.from_julian_day_number(j), of a given number or of the number that
\* to_julian_day_number has just returned
FromJulianDayNumber(c, j) ==
    LET r == from_julian_day_number(c, j)
    IN  /\ op \in {"none", "to_jdn"}
        /\ op' = "from_jdn"
        /\ cls' = c
        /\ self' = NoDate
        /\ args' = <<j>>
        /\ exc' = r.exc
        /\ obj' = IF r.exc = "none" THEN r.val ELSE NoDate
        /\ num' = 0
        /\ flags' = NoFlags
        /\ rhs' = NoRhs
        /\ reduced' = period_reduction(c, j)
        /\ testing' = FALSE
        /\ julian_day_number' = 0

\* obj < o, obj <= o, obj == o, obj != o, obj > o, obj >= o
Compare(o) ==
    /\ obj # NoDate
    /\ LET lhs == [cls |-> cls, date |-> obj]
       IN  /\ op' = "compare"
           /\ self' = obj
           /\ args' = <<>>
           /\ exc' = "none"
           /\ obj' = NoDate
           /\ num' = 0
           /\ flags' = [lt |-> __lt__(lhs, o), le |-> __le__(lhs, o),
                        eq |-> __eq__(lhs, o), ne |-> __ne__(lhs, o),
                        gt |-> __gt__(lhs, o), ge |-> __ge__(lhs, o),
                        leap |-> FALSE]
           /\ rhs' = o
           /\ reduced' = NoReduction
           /\ testing' = FALSE
           /\ julian_day_number' = 0
           /\ UNCHANGED cls

\* c.is_leapyear(y)
IsLeapyear(c, y) ==
    LET r == is_leapyear(c, y)
    IN  /\ op = "none"
        /\ op' = "is_leapyear"
        /\ cls' = c
        /\ self' = NoDate
        /\ args' = <<y>>
        /\ exc' = r.exc
        /\ obj' = NoDate
        /\ num' = 0
        /\ flags' = [NoFlags EXCEPT !.leap = IF r.exc = "none" THEN r.val ELSE FALSE]
        /\ rhs' = NoRhs
        /\ reduced' = NoReduction
        /\ testing' = FALSE
        /\ julian_day_number' = 0

\* c.length_of_month(y, m)
LengthOfMonth(c, y, m) ==
    LET r == length_of_month(c, y, m)
    IN  /\ op = "none"
        /\ op' = "length_of_month"
        /\ cls' = c
        /\ self' = NoDate
        /\ args' = <<y, m>>
        /\ exc' = r.exc
        /\ obj' = NoDate
        /\ num' = IF r.exc = "none" THEN r.val ELSE 0
        /\ flags' = NoFlags
        /\ rhs' = NoRhs
        /\ reduced' = NoReduction
        /\ testing' = FALSE
        /\ julian_day_number' = 0

\* The unit tests' loop over the days from the epoch: the epoch date is
\* constructed and the counter set to 0 ...
TestStart(c) ==
    LET e == EpochArgs(c)
        r == __init__(c, e[1], e[2], e[3])
    IN  /\ op = "none"
        /\ r.exc = "none"
        /\ op' = "test_start"
        /\ cls' = c
        /\ self' = NoDate
        /\ args' = e
        /\ exc' = r.exc
        /\ obj' = r.val
        /\ num' = 0
        /\ flags' = NoFlags
        /\ rhs' = NoRhs
        /\ reduced' = NoReduction
        /\ testing' = TRUE
        /\ julian_day_number' = 0

\* ... and each turn of the loop replaces the date by its successor and
\* adds 1 to the counter, while the year is at most 5000.
TestStep ==
    /\ testing
    /\ obj # NoDate
    /\ obj.year <= 5000
    /\ julian_day_number < MaxWalk
    /\ LET r == __next__(cls, obj)
       IN  /\ op' = "test_step"
           /\ self' = obj
           /\ args' = <<>>
           /\ exc' = r.exc
           /\ obj' = IF r.exc = "none" THEN r.val ELSE NoDate
           /\ num' = 0
           /\ flags' = NoFlags
           /\ rhs' = NoRhs
           /\ reduced' = NoReduction
           /\ testing' = (r.exc = "none")
           /\ julian_day_number' = julian_day_number + 1
           /\ UNCHANGED cls

\* The guards that do not depend on the arguments stand before the
\* quantifiers, so that the arguments are enumerated only where a call is
\* enabled.
Next ==
    \/ /\ op = "none"
       /\ \E c \in Classes, y \in ArgYears, m \in 0..MaxMonthArg, d \in 0..MaxDayArg :
              Construct(c, y, m, d)
    \/ NextDay
    \/ ToJulianDayNumber
    \/ /\ op \in {"none", "to_jdn"}
       /\ \E c \in Classes, j \in IF op = "to_jdn" THEN {num} ELSE JdnInputs :
              FromJulianDayNumber(c, j)
    \/ /\ obj # NoDate
       /\ \E o \in CmpOperands : Compare(o)
    \/ /\ op = "none"
       /\ \E c \in Classes, y \in LeapYears : IsLeapyear(c, y)
    \/ /\ op = "none"
       /\ \E c \in Classes, y \in ArgYears, m \in 0..MaxMonthArg : LengthOfMonth(c, y, m)
    \/ /\ op = "none"
       /\ \E c \in Classes : TestStart(c)
    \/ TestStep

Spec == Init /\ [][Next]_vars

(***************************************************************************)
(* Helpers of the properties.                                              *)
(***************************************************************************)
\* The day number of a date under the model's to_julian_day_number, as a
\* set: empty when the conversion raises.
DayNumbers(c, date) ==
    {r.val : r \in {x \in {to_julian_day_number(c, date)} : x.exc = "none"}}

\* The dates c.from_julian_day_number(j) returns, as a set: empty when it raises.
DatesOf(c, j) ==
    {r.val : r \in {x \in {from_julian_day_number(c, j)} : x.exc = "none"}}

EpochDate(c) == Date(EpochArgs(c)[1], EpochArgs(c)[2], EpochArgs(c)[3])

\* (year, month, day) of a before (year, month, day) of b, field by field.
FieldsBefore(a, b) ==
    \/ a.year < b.year
    \/ a.year = b.year /\ a.month < b.month
    \/ a.year = b.year /\ a.month = b.month /\ a.day < b.day

(***************************************************************************)
(* C1.  next(d) succeeds on every valid date d and its day number is one   *)
(* more than d's: after every successor step the call has raised nothing   *)
(* and to_julian_day_number(obj) = to_julian_day_number(self) + 1; and in  *)
(* the walk from the epoch date with a counter started at 0, the day       *)
(* number of the date equals the counter in every state.                   *)
(***************************************************************************)
C1_NextAddsOneDay ==
    /\ op \in {"next", "test_step"} =>
          /\ exc = "none"
          /\ obj # NoDate
          /\ DayNumbers(cls, self) # {}
          /\ DayNumbers(cls, obj) = {n + 1 : n \in DayNumbers(cls, self)}
    /\ testing => DayNumbers(cls, obj) = {julian_day_number}

\* The step from 31 December of year -1 to year +1 has been taken.
C1_Witness ==
    /\ op = "next"
    /\ self = Date(-1, 12, 31)
    /\ obj.year = 1

(***************************************************************************)
(* C2.  Converting a valid date of either calendar, of a positive or a     *)
(* negative year, to its day number and back with the same class gives the *)
(* same (year, month, day) fields: after to_julian_day_number the returned *)
(* number converts back to the receiver; and in the walk from the epoch    *)
(* the counter converts to the fields of the walk's date.                  *)
(***************************************************************************)
C2_DateRoundTrip ==
    /\ op = "to_jdn" => exc = "none" /\ DatesOf(cls, num) = {self}
    /\ testing => DatesOf(cls, julian_day_number) = {obj}

\* A leap day of a BCE year has been converted to its day number.
C2_Witness ==
    /\ op = "to_jdn"
    /\ cls = GregorianCalendarDate
    /\ self.year < 0 /\ self.month = 2 /\ self.day = 29

(***************************************************************************)
(* C3.  For every integer j, negative, zero or positive, and each class,   *)
(* the date from_julian_day_number(j) returns has the day number j.        *)
(***************************************************************************)
C3_DayNumberRoundTrip ==
    op = "from_jdn" =>
        /\ exc = "none"
        /\ obj # NoDate
        /\ DayNumbers(cls, obj) = {args[1]}

\* A negative day number has been converted to a date.
C3_Witness ==
    /\ op = "from_jdn"
    /\ args[1] < 0
    /\ obj # NoDate

(***************************************************************************)
(* C4.  The epoch anchors: the Julian date (-4713, 1, 1) and the Gregorian *)
(* date (-4714, 11, 24) both have the day number 0, and the two compare    *)
(* equal under the == of dates of different classes.                       *)
(***************************************************************************)
C4_EpochAnchors ==
    /\ (op = "to_jdn" /\ cls = JulianCalendarDate /\ self = Date(-4713, 1, 1)) =>
           exc = "none" /\ num = 0
    /\ (op = "to_jdn" /\ cls = GregorianCalendarDate /\ self = Date(-4714, 11, 24)) =>
           exc = "none" /\ num = 0
    /\ (/\ op = "compare"
        /\ \/ /\ cls = JulianCalendarDate /\ self = Date(-4713, 1, 1)
              /\ rhs = Object(GregorianCalendarDate, -4714, 11, 24)
           \/ /\ cls = GregorianCalendarDate /\ self = Date(-4714, 11, 24)
              /\ rhs = Object(JulianCalendarDate, -4713, 1, 1)) =>
           flags.eq /\ ~flags.ne

\* The Julian epoch date has been compared with the Gregorian one.
C4_Witness ==
    /\ op = "compare"
    /\ cls = JulianCalendarDate /\ self = Date(-4713, 1, 1)
    /\ rhs = Object(GregorianCalendarDate, -4714, 11, 24)
    /\ flags.eq

(***************************************************************************)
(* C5.  Each of the six comparison operators, applied to two valid dates   *)
(* of the same or of different classes, gives what the operator gives on   *)
(* their day numbers, so that exactly one of <, == and > holds; and Julian *)
(* (1752, 9, 2) equals Gregorian (1752, 9, 13), Julian (1752, 9, 13)       *)
(* equals Gregorian (1752, 9, 24).                                         *)
(***************************************************************************)
C5_ComparisonsFollowDayNumbers ==
    op = "compare" =>
        /\ \E a \in DayNumbers(cls, self), b \in DayNumbers(rhs.cls, rhs.date) :
              /\ flags.lt = (a < b)
              /\ flags.le = (a <= b)
              /\ flags.eq = (a = b)
              /\ flags.ne = (a # b)
              /\ flags.gt = (a > b)
              /\ flags.ge = (a >= b)
        /\ Cardinality({f \in {"lt", "eq", "gt"} : flags[f]}) = 1
        /\ (/\ cls = JulianCalendarDate /\ self = Date(1752, 9, 2)
            /\ rhs = Object(GregorianCalendarDate, 1752, 9, 13)) => flags.eq
        /\ (/\ cls = JulianCalendarDate /\ self = Date(1752, 9, 13)
            /\ rhs = Object(GregorianCalendarDate, 1752, 9, 24)) => flags.eq
        /\ (/\ cls = GregorianCalendarDate /\ self = Date(1752, 9, 13)
            /\ rhs = Object(JulianCalendarDate, 1752, 9, 13)) => flags.lt /\ ~flags.ge

\* Julian (1752, 9, 2) has been compared with Gregorian (1752, 9, 13).
C5_Witness ==
    /\ op = "compare"
    /\ cls = JulianCalendarDate /\ self = Date(1752, 9, 2)
    /\ rhs = Object(GregorianCalendarDate, 1752, 9, 13)
    /\ flags.eq /\ flags.le /\ flags.ge

(***************************************************************************)
(* C6.  Constructing a date from integers succeeds if and only if the year *)
(* is not 0, the month is in 1..12 and the day is in                       *)
(* 1..length_of_month(year, month); then the object has these fields.  In  *)
(* every other case (year 0, month 13, day 0, 30 February, 29 February of  *)
(* a year that is no leap year) it raises ValueError and no object is made.*)
(***************************************************************************)
C6_ConstructionValidates ==
    op = "new" =>
        LET y == args[1]
            m == args[2]
            d == args[3]
            len == length_of_month(cls, y, m)
            valid == /\ y # 0
                     /\ 1 <= m /\ m <= 12
                     /\ len.exc = "none"
                     /\ 1 <= d /\ d <= len.val
        IN  /\ (exc = "none") = valid
            /\ valid => obj = Date(y, m, d)
            /\ ~valid => exc = "ValueError" /\ obj = NoDate
            /\ (y = 0 \/ m = 0 \/ m = 13 \/ d = 0 \/ d > 31) => exc = "ValueError"
            /\ (m = 2 /\ d = 30) => exc = "ValueError"
            /\ (m \in {4, 6, 9, 11} /\ d = 31) => exc = "ValueError"
            /\ (y = 1900 /\ m = 2 /\ d = 29) =>
                   (exc = "ValueError") = (cls = GregorianCalendarDate)
            /\ (y = 2000 /\ m = 2 /\ d = 29) => exc = "none"
            /\ (y = 1901 /\ m = 2 /\ d = 29) => exc = "ValueError"

\* 29 February 1900 has been refused by the Gregorian calendar.
C6_Witness ==
    /\ op = "new"
    /\ cls = GregorianCalendarDate
    /\ args = <<1900, 2, 29>>
    /\ exc = "ValueError"
    /\ obj = NoDate

(***************************************************************************)
(* C7.  Every date that is reached is valid for its calendar:              *)
(* from_julian_day_number and next never raise, and every date a call      *)
(* returns has a year other than 0, a month in 1..12 and a day in          *)
(* 1..length_of_month(year, month); next of (-1, 12, 31) is (1, 1, 1).     *)
(***************************************************************************)
C7_ReachedDatesAreValid ==
    /\ op \in {"from_jdn", "next", "test_step"} => exc = "none" /\ obj # NoDate
    /\ obj # NoDate =>
          /\ obj.year # 0
          /\ 1 <= obj.month /\ obj.month <= 12
          /\ 1 <= obj.day
          /\ \E len \in 28..31 :
                /\ length_of_month(cls, obj.year, obj.month) = Return(len)
                /\ obj.day <= len
    /\ (op \in {"next", "test_step"} /\ self = Date(-1, 12, 31)) => obj = Date(1, 1, 1)

\* A day number has been converted to the leap day of 1 BCE, the last day
\* before 1 March of normalized year 0.
C7_Witness ==
    /\ op = "from_jdn"
    /\ exc = "none"
    /\ cls = GregorianCalendarDate
    /\ obj = Date(-1, 2, 29)

\* The normalized year, and the leap-year rules in their usual wording.
Normalized(y) == IF y > 0 THEN y ELSE y + 1
UsualLeapRule(c, n) ==
    IF c = JulianCalendarDate
    THEN n % 4 = 0
    ELSE (n % 4 = 0 /\ n % 100 # 0) \/ n % 400 = 0

(***************************************************************************)
(* C8.  For every year other than 0, is_leapyear is the calendar's rule on *)
(* the normalized year: divisible by 4 in the Julian calendar; in the      *)
(* Gregorian calendar the XOR of divisibility by 4, 100 and 400, which is  *)
(* "divisible by 4 and not by 100, unless also by 400".  Gregorian 2000    *)
(* and 1996 are leap years, 1900 and 1997 are not, Julian 1900 is, and     *)
(* year -1 is in both.  is_leapyear(0) raises ValueError, and February has *)
(* 29 days exactly in the leap years, else 28.                             *)
(***************************************************************************)
C8_LeapYearRule ==
    /\ op = "is_leapyear" =>
          LET y == args[1]
          IN  /\ y = 0 => exc = "ValueError"
              /\ y # 0 => /\ exc = "none"
                          /\ flags.leap = UsualLeapRule(cls, Normalized(y))
              /\ (cls = GregorianCalendarDate /\ y \in {2000, 1996}) => flags.leap
              /\ (cls = GregorianCalendarDate /\ y \in {1900, 1997}) =>
                     exc = "none" /\ ~flags.leap
              /\ (cls = JulianCalendarDate /\ y = 1900) => flags.leap
              /\ y = -1 => flags.leap
    /\ (op = "length_of_month" /\ args[1] # 0 /\ args[2] = 2) =>
          /\ exc = "none"
          /\ num = IF UsualLeapRule(cls, Normalized(args[1])) THEN 29 ELSE 28
          /\ (num = 29) = (is_leapyear(cls, args[1]) = Return(TRUE))

\* is_leapyear(-1) has returned true in the Gregorian calendar.
C8_Witness ==
    /\ op = "is_leapyear"
    /\ cls = GregorianCalendarDate
    /\ args = <<-1>>
    /\ flags.leap

\* The offset of a day number from 1 March of normalized year 0.
Rebased(c, j) == j - _year_julian_day_number(c, 0)

(***************************************************************************)
(* C9.  In from_julian_day_number, after the loop over the period table    *)
(* the remaining day offset is in 0..365, counted from 1 March of the      *)
(* accumulated year, and it is 365 only when that March-first year ends in *)
(* a leap day by the calendar's leap-year rule.  The last day of a 4-year  *)
(* cycle (Julian) and of a 400-year cycle (Gregorian, rebased offset       *)
(* 146096 modulo 146097) leaves 365 and becomes 29 February of a leap      *)
(* year: it is not counted as a 4th one-year or 100-year period.           *)
(***************************************************************************)
C9_PeriodReductionResidue ==
    op = "from_jdn" =>
        /\ 0 <= reduced.days /\ reduced.days <= 365
        /\ _year_julian_day_number(cls, reduced.year) + reduced.days = args[1]
        /\ reduced.days = 365 =>
              /\ _leapyear_rule(cls, reduced.year + 1)
              /\ obj.month = 2 /\ obj.day = 29
              /\ is_leapyear(cls, obj.year) = Return(TRUE)
        /\ (cls = JulianCalendarDate /\ Rebased(cls, args[1]) % 1461 = 1460) =>
              reduced.days = 365
        /\ (cls = GregorianCalendarDate /\ Rebased(cls, args[1]) % 146097 = 146096) =>
              reduced.days = 365

\* The last day of a 400-year cycle has been converted in the Gregorian
\* calendar.
C9_Witness ==
    /\ op = "from_jdn"
    /\ cls = GregorianCalendarDate
    /\ Rebased(cls, args[1]) % 146097 = 146096
    /\ reduced.days = 365
    /\ obj.month = 2 /\ obj.day = 29

\* The order of two dates by their fields and by their day numbers.
FieldOrder(a, b) ==
    IF FieldsBefore(a, b) THEN "less" ELSE IF FieldsBefore(b, a) THEN "greater" ELSE "equal"
DayOrder(c, a, b) ==
    LET x == to_julian_day_number(c, a).val
        y == to_julian_day_number(c, b).val
    IN  IF x < y THEN "less" ELSE IF x > y THEN "greater" ELSE "equal"

\* The valid dates of a year in a calendar.
DatesOfYear(c, y) ==
    {Date(y, m, d) : <<m, d>> \in
        {md \in (1..12) \X (1..31) : __init__(c, y, md[1], md[2]).exc = "none"}}

(***************************************************************************)
(* C10, as claimed.  Within a single calendar there are valid dates a and  *)
(* b, at the BCE/CE boundary (years -1 and +1) or on either side of the    *)
(* March shift (January or February against March and later), that their   *)
(* fields order differently than their day numbers.  The claim is one of  *)
(* existence, stated here at the states in which two dates of one calendar *)
(* on the two sides of the boundary or of the shift have been compared:    *)
(* such dates exist among all the dates of the years -1 and +1 and among   *)
(* the dates before and after 1 March of a year.                           *)
(***************************************************************************)
AcrossBoundaryOrShift(a, b) ==
    \/ a.year = -1 /\ b.year = 1
    \/ a.year = b.year /\ a.month <= 2 /\ b.month >= 3

C10_FieldOrderDiffersWithinACalendar ==
    (/\ op = "compare"
     /\ rhs.cls = cls
     /\ AcrossBoundaryOrShift(self, rhs.date)) =>
        \E c \in Classes :
            \/ \E a \in DatesOfYear(c, -1), b \in DatesOfYear(c, 1) :
                  FieldOrder(a, b) # DayOrder(c, a, b)
            \/ \E y \in {-1, 1, 1900, 2000} :
                  \E a \in {x \in DatesOfYear(c, y) : x.month <= 2},
                     b \in {x \in DatesOfYear(c, y) : x.month >= 3} :
                     FieldOrder(a, b) # DayOrder(c, a, b)

(***************************************************************************)
(* C10, as amended.  Within a single calendar the fields order two valid   *)
(* dates as their day numbers do, at the BCE/CE boundary and on either     *)
(* side of the March shift as elsewhere: a comparison of two dates of one  *)
(* class gives <, == and > as the comparison of (year, month, day).  The   *)
(* orders differ only between the calendars: Julian (1752, 9, 13) is after *)
(* Gregorian (1752, 9, 13), whose fields are the same.                     *)
(***************************************************************************)
C10_FieldOrderIsDayOrderWithinACalendar ==
    op = "compare" =>
        /\ rhs.cls = cls =>
              /\ flags.lt = (FieldOrder(self, rhs.date) = "less")
              /\ flags.eq = (FieldOrder(self, rhs.date) = "equal")
              /\ flags.gt = (FieldOrder(self, rhs.date) = "greater")
        /\ (/\ cls = JulianCalendarDate /\ self = Date(1752, 9, 13)
            /\ rhs = Object(GregorianCalendarDate, 1752, 9, 13)) =>
              flags.gt /\ FieldOrder(self, rhs.date) = "equal"

\* 31 December of year -1 has been compared with 1 January of year 1 of
\* the same calendar.
C10_Witness ==
    /\ op = "compare"
    /\ cls = JulianCalendarDate
    /\ self = Date(-1, 12, 31)
    /\ rhs = Object(JulianCalendarDate, 1, 1, 1)
    /\ flags.lt

=============================================================================
